---- MODULE Spec2Model ----
(***************************************************************************)
(* The slide-navigation controller of src/js/main.js                       *)
(* (class PresentationController and the page-level listeners below it),   *)
(* as a state machine.  One action per browser callback: the page's        *)
(* DOMContentLoaded, a click, a key, a touch, a resize, an animation       *)
(* frame, a timer, a visibility change, a beforeunload, a reload.          *)
(*                                                                         *)
(* Not modelled (no state the controller reads back): the 100 ms           *)
(* stat-bar timers of updateProgress (lines 268-276), the focus() call of  *)
(* the settle timer (lines 238-241), isMobile/isTablet and                 *)
(* optimizeForMobile (lines 140-153, 157-167), initTabs and the image      *)
(* loading counter (lines 467-487, 522-545).                               *)
(***************************************************************************)
EXTENDS Integers, Sequences, FiniteSets

\* ------------------------------------------------------------------ bounds
\* The largest number of .slide elements of the page.
MaxSlides == 3
\* The largest number of resize events of one burst.
MaxBurst == 5

\* ------------------------------------------------- constants of the source
\* handleTouchEnd: Math.abs(deltaX) > 50
SwipeMinDistance == 50
\* handleTouchEnd: deltaTime < 500
SwipeMaxTime == 500
\* init(): this.showSlide(0)
FirstSlide == 0

\* --------------------------------------------------------- strings as data
\* A string is a sequence of one-character strings.  localStorage.getItem
\* returns null for a missing key.
Null == <<"null">>

DecDigits == <<"0", "1", "2", "3", "4", "5", "6", "7", "8", "9">>
HexLower == <<"a", "b", "c", "d", "e", "f">>
HexUpper == <<"A", "B", "C", "D", "E", "F">>

\* The value of character c as a digit of radix r, or -1 when it is none.
DigitValue(c, r) ==
    IF \E i \in 1..10 : DecDigits[i] = c
    THEN (CHOOSE i \in 1..10 : DecDigits[i] = c) - 1
    ELSE IF r = 16 /\ \E i \in 1..6 : HexLower[i] = c
    THEN 9 + (CHOOSE i \in 1..6 : HexLower[i] = c)
    ELSE IF r = 16 /\ \E i \in 1..6 : HexUpper[i] = c
    THEN 9 + (CHOOSE i \in 1..6 : HexUpper[i] = c)
    ELSE -1

IsWhiteSpace(c) == c \in {" ", "\t", "\n"}

RECURSIVE TrimLeft(_)
TrimLeft(s) ==
    IF s # <<>> /\ IsWhiteSpace(Head(s)) THEN TrimLeft(Tail(s)) ELSE s

\* The longest prefix of s made of radix-r digits, read as a number:
\* [n |-> how many digits, val |-> their value].
RECURSIVE DigitPrefix(_, _, _)
DigitPrefix(s, r, acc) ==
    IF s # <<>> /\ DigitValue(Head(s), r) >= 0
    THEN DigitPrefix(Tail(s), r,
                     [n |-> acc.n + 1, val |-> acc.val * r + DigitValue(Head(s), r)])
    ELSE acc

\* parseInt(string) with no radix argument (ECMAScript): skip leading white
\* space, take a sign, take a 0x/0X prefix as radix 16, read the longest
\* digit prefix; NaN when that prefix is empty.
ParseInt(str) ==
    LET s1 == TrimLeft(str)
        neg == s1 # <<>> /\ Head(s1) = "-"
        s2 == IF s1 # <<>> /\ Head(s1) \in {"-", "+"} THEN Tail(s1) ELSE s1
        hex == Len(s2) >= 2 /\ s2[1] = "0" /\ s2[2] \in {"x", "X"}
        s3 == IF hex THEN Tail(Tail(s2)) ELSE s2
        p == DigitPrefix(s3, IF hex THEN 16 ELSE 10, [n |-> 0, val |-> 0])
    IN IF p.n = 0
       THEN [nan |-> TRUE, val |-> 0]
       ELSE [nan |-> FALSE, val |-> IF neg THEN 0 - p.val ELSE p.val]

\* Number.prototype.toString() of an integer: its decimal digits.
RECURSIVE NatToString(_)
NatToString(n) ==
    IF n < 10 THEN <<DecDigits[n + 1]>>
    ELSE Append(NatToString(n \div 10), DecDigits[(n % 10) + 1])

ToString(n) == IF n < 0 THEN <<"-">> \o NatToString(0 - n) ELSE NatToString(n)

\* ------------------------------------------------------------------- state
VARIABLES
    constructed,     \* window.presentation is set (line 520)
    totalSlides,     \* this.totalSlides: the page's number of .slide elements
    currentSlide,    \* this.currentSlide
    slides,          \* slides[i]: the classes 'active'/'exit' of this.slides[i]
    isAnimating,     \* this.isAnimating
    frames,          \* pending requestAnimationFrame callbacks, oldest first
    settleTimers,    \* pending 600 ms timers of goToSlide
    prevDisabled,    \* this.prevButton.disabled
    nextDisabled,    \* this.nextButton.disabled
    progressFill,    \* this.progressFill.style.width, as the fraction <<num, den>>
    counterText,     \* <<currentSlideElement text, totalSlidesElement text>>
    stored,          \* localStorage['presentationProgress'], Null when absent
    storageFails,    \* localStorage access throws (quota, privacy mode)
    touchStartX,     \* this.touchStartX
    touchStartY,     \* this.touchStartY
    touchStartTime,  \* this.touchStartTime
    resizeTimeout,   \* this.resizeTimeout: "null", or a timer "pending"/"fired"
    debounceTimers,  \* pending 250 ms timers of handleResize
    resizeEvents,    \* resize events of the current burst
    passes,          \* chart-relayout passes since the last resize event
    chartLib,        \* the page's Chart global: "ok", "absent", "throws"
                     \* (the first constructor throws) or "throwsLater"
    charts,          \* this.charts: the registered chart ids, in insertion order
    committed,       \* history: a transition of this controller has run its
                     \* commit (lines 222-231)
    lastEvent,       \* the callback that ran last
    calls,           \* the controller methods that callback called
    resized,         \* the charts whose resize() that callback called
    warned,          \* the console.warn messages of that callback
    prevented        \* that callback called preventDefault on its event

navVars == <<currentSlide, slides, isAnimating, frames, settleTimers,
             prevDisabled, nextDisabled, progressFill, counterText>>
touchVars == <<touchStartX, touchStartY, touchStartTime>>
resizeVars == <<resizeTimeout, debounceTimers, resizeEvents, passes>>
pageVars == <<constructed, totalSlides, chartLib, charts, committed>>
logVars == <<lastEvent, calls, resized, warned, prevented>>
vars == <<navVars, touchVars, resizeVars, pageVars, logVars, stored, storageFails>>

\* ------------------------------------------------------------ input sets
\* What storage may hold before the page first loads: nothing, an index
\* beyond every page of the model, a negative index, text that is no number.
StoredAtFirstLoad == {Null, <<"7">>, <<"-", "1">>, <<"x">>}

\* Keys of keydown events; "a" stands for every key without a case.
Keys == {"ArrowLeft", "PageUp", "ArrowRight", "PageDown", " ", "Home", "End", "a"}

\* Touch events: where and when (Date.now()) a touch starts, and the
\* gestures that end <<x, y, now>> away from a start at <<100, 100, 1000>>.
TouchStarts == {<<100, 100, 1000>>}
TouchEnds ==
    { <<20, 105, 1200>>,    \* deltaX -80, deltaY 5, 200 ms
      <<180, 105, 1200>>,   \* deltaX +80, deltaY 5, 200 ms
      <<20, 105, 1600>>,    \* 600 ms
      <<180, 105, 1500>>,   \* 500 ms
      <<180, 105, 1499>>,   \* 499 ms
      <<150, 100, 1200>>,   \* deltaX +50
      <<151, 100, 1200>>,   \* deltaX +51
      <<50, 100, 1200>>,    \* deltaX -50
      <<49, 100, 1200>>,    \* deltaX -51
      <<180, 190, 1200>>,   \* deltaY 90 exceeds deltaX 80
      <<20, 20, 1200>>,     \* deltaX -80, deltaY -80
      <<100, 100, 1200>> }  \* a tap

\* The canvases of the page, in the order initCharts looks them up.
PageCanvases == <<"skillsChart", "satisfactionChart">>

\* ------------------------------------------------------------- operators
Call(fn, args) == [fn |-> fn, args |-> args]

\* updateButtonStates(disabled): the two disabled flags it assigns.
\* A variant with the last index taken as totalSlides.
UpdateButtonStatesOffByOne(disabled, cur, n) ==
    [prev |-> disabled \/ cur = 0, next |-> disabled \/ cur = n]

\* A variant that ignores the disabled argument.
UpdateButtonStatesIgnoresFlag(disabled, cur, n) ==
    [prev |-> cur = 0, next |-> cur = n - 1]

UpdateButtonStates(disabled, cur, n) ==
    [prev |-> disabled \/ cur = 0, next |-> disabled \/ cur = n - 1]

\* updateProgress(): ((currentSlide + 1) / totalSlides) * 100, kept as the
\* fraction <<numerator, denominator>>.
\* A variant that takes the index for the slide number.
UpdateProgressFromIndex(cur, n) == <<cur * 100, n>>

UpdateProgress(cur, n) == <<(cur + 1) * 100, n>>

\* updateSlideCounter(): the text of .current-slide.
UpdateSlideCounter(cur, n) == <<cur + 1, n>>

\* showSlide(index): every slide loses 'active' and 'exit', slide index
\* gets 'active'.
\* A variant without classList.remove('active', 'exit') of line 250.
ShowSlideKeepsMarks(index, n) ==
    [i \in 0..(n - 1) |-> slides[i] \cup (IF i = index THEN {"active"} ELSE {})]

ShowSlide(index, n) ==
    [i \in 0..(n - 1) |-> IF i = index THEN {"active"} ELSE {}]

\* saveProgress(): what storage holds afterwards, what is logged, and
\* whether an exception leaves the method.
\* A variant that writes the slide number shown in the counter.
SaveProgressSlideNumber(cur) ==
    IF storageFails
    THEN [stored |-> stored, warn |-> {"save"}, threw |-> FALSE]
    ELSE [stored |-> ToString(cur + 1), warn |-> {}, threw |-> FALSE]

\* A variant without the try/catch of lines 490-494.
SaveProgressNoCatch(cur) ==
    IF storageFails
    THEN [stored |-> stored, warn |-> {}, threw |-> TRUE]
    ELSE [stored |-> ToString(cur), warn |-> {}, threw |-> FALSE]

SaveProgress(cur) ==
    IF storageFails
    THEN [stored |-> stored, warn |-> {"save"}, threw |-> FALSE]
    ELSE [stored |-> ToString(cur), warn |-> {}, threw |-> FALSE]

\* loadProgress(): this.currentSlide afterwards (cur before), what is
\* logged, and whether an exception leaves the method.
\* A variant without the try/catch of lines 498-508.
LoadProgressNoCatch(cur, n) ==
    IF storageFails
    THEN [index |-> cur, warn |-> {}, threw |-> TRUE]
    ELSE IF stored = Null
    THEN [index |-> cur, warn |-> {}, threw |-> FALSE]
    ELSE LET savedSlide == ParseInt(stored)
         IN IF ~savedSlide.nan /\ savedSlide.val >= 0 /\ savedSlide.val < n
            THEN [index |-> savedSlide.val, warn |-> {}, threw |-> FALSE]
            ELSE [index |-> cur, warn |-> {}, threw |-> FALSE]

LoadProgress(cur, n) ==
    IF storageFails
    THEN [index |-> cur, warn |-> {"load"}, threw |-> FALSE]
    ELSE IF stored = Null
    THEN [index |-> cur, warn |-> {}, threw |-> FALSE]
    ELSE LET savedSlide == ParseInt(stored)
         IN IF ~savedSlide.nan /\ savedSlide.val >= 0 /\ savedSlide.val < n
            THEN [index |-> savedSlide.val, warn |-> {}, threw |-> FALSE]
            ELSE [index |-> cur, warn |-> {}, threw |-> FALSE]

\* initCharts(): the registry afterwards and what is logged.  A canvas gets
\* a chart when the Chart global exists; a constructor that throws ends
\* initCharts in its catch.
\* A throw before the last constructor leaves the charts built so far in the
\* registry (this.charts.set, lines 336 and 373).
InitChartsNoCatch ==
    CASE chartLib = "ok" -> [charts |-> PageCanvases, warn |-> {}, threw |-> FALSE]
      [] chartLib = "absent" -> [charts |-> <<>>, warn |-> {}, threw |-> FALSE]
      [] chartLib = "throws" -> [charts |-> <<>>, warn |-> {}, threw |-> TRUE]
      [] chartLib = "throwsLater" ->
           [charts |-> SubSeq(PageCanvases, 1, Len(PageCanvases) - 1),
            warn |-> {}, threw |-> TRUE]

InitCharts ==
    CASE chartLib = "ok" -> [charts |-> PageCanvases, warn |-> {}, threw |-> FALSE]
      [] chartLib = "absent" -> [charts |-> <<>>, warn |-> {}, threw |-> FALSE]
      [] chartLib = "throws" ->
           [charts |-> <<>>, warn |-> {"chart"}, threw |-> FALSE]
      [] chartLib = "throwsLater" ->
           [charts |-> SubSeq(PageCanvases, 1, Len(PageCanvases) - 1),
            warn |-> {"chart"}, threw |-> FALSE]

Abs(x) == IF x < 0 THEN 0 - x ELSE x

\* What a callback leaves in the log.
Log(ev, c, r, w, p) ==
    /\ lastEvent' = ev
    /\ calls' = c
    /\ resized' = r
    /\ warned' = w
    /\ prevented' = p

\* ------------------------------------------------------------------ Init
\* The page before DOMContentLoaded: no controller yet; the fields hold the
\* values the constructor gives them (lines 9-33).
Init ==
    /\ constructed = FALSE
    /\ totalSlides \in 0..MaxSlides
    /\ currentSlide = 0
    /\ slides = [i \in 0..(totalSlides - 1) |-> {}]
    /\ isAnimating = FALSE
    /\ frames = <<>>
    /\ settleTimers = 0
    /\ prevDisabled = FALSE
    /\ nextDisabled = FALSE
    /\ progressFill = <<0, 1>>
    /\ counterText = <<0, 0>>
    /\ stored \in StoredAtFirstLoad
    /\ storageFails \in BOOLEAN
    /\ touchStartX = 0
    /\ touchStartY = 0
    /\ touchStartTime = 0
    /\ resizeTimeout = "null"
    /\ debounceTimers = 0
    /\ resizeEvents = 0
    /\ passes = 0
    /\ chartLib \in {"ok", "absent", "throws", "throwsLater"}
    /\ charts = <<>>
    /\ committed = FALSE
    /\ lastEvent = "none"
    /\ calls = <<>>
    /\ resized = <<>>
    /\ warned = {}
    /\ prevented = FALSE

\* ------------------------------------------------------------ navigation
\* goToSlide(index), lines 202-245, up to the first requestAnimationFrame.
\* A variant without the isAnimating test of line 203.
GoToSlideNoLock(index) ==
    IF index < 0 \/ index >= totalSlides
    THEN UNCHANGED navVars
    ELSE LET b == UpdateButtonStates(TRUE, currentSlide, totalSlides)
         IN /\ isAnimating' = TRUE
            /\ prevDisabled' = b.prev
            /\ nextDisabled' = b.next
            /\ slides' = IF currentSlide \in DOMAIN slides
                         THEN [slides EXCEPT ![currentSlide] = (@ \ {"active"}) \cup {"exit"}]
                         ELSE slides
            /\ currentSlide' = index
            /\ frames' = Append(frames, "outer")
            /\ UNCHANGED <<settleTimers, progressFill, counterText>>

\* A variant without the index >= totalSlides test of line 203.
GoToSlideNoUpperBound(index) ==
    IF isAnimating \/ index < 0
    THEN UNCHANGED navVars
    ELSE LET b == UpdateButtonStates(TRUE, currentSlide, totalSlides)
         IN /\ isAnimating' = TRUE
            /\ prevDisabled' = b.prev
            /\ nextDisabled' = b.next
            /\ slides' = IF currentSlide \in DOMAIN slides
                         THEN [slides EXCEPT ![currentSlide] = (@ \ {"active"}) \cup {"exit"}]
                         ELSE slides
            /\ currentSlide' = index
            /\ frames' = Append(frames, "outer")
            /\ UNCHANGED <<settleTimers, progressFill, counterText>>

\* A variant without the index < 0 test of line 203.
GoToSlideNoLowerBound(index) ==
    IF isAnimating \/ index >= totalSlides
    THEN UNCHANGED navVars
    ELSE LET b == UpdateButtonStates(TRUE, currentSlide, totalSlides)
         IN /\ isAnimating' = TRUE
            /\ prevDisabled' = b.prev
            /\ nextDisabled' = b.next
            /\ slides' = IF currentSlide \in DOMAIN slides
                         THEN [slides EXCEPT ![currentSlide] = (@ \ {"active"}) \cup {"exit"}]
                         ELSE slides
            /\ currentSlide' = index
            /\ frames' = Append(frames, "outer")
            /\ UNCHANGED <<settleTimers, progressFill, counterText>>

GoToSlide(index) ==
    IF isAnimating \/ index < 0 \/ index >= totalSlides
    THEN UNCHANGED navVars
    ELSE LET b == UpdateButtonStates(TRUE, currentSlide, totalSlides)
         IN /\ isAnimating' = TRUE
            /\ prevDisabled' = b.prev
            /\ nextDisabled' = b.next
            /\ slides' = IF currentSlide \in DOMAIN slides
                         THEN [slides EXCEPT ![currentSlide] = (@ \ {"active"}) \cup {"exit"}]
                         ELSE slides
            /\ currentSlide' = index
            /\ frames' = Append(frames, "outer")
            /\ UNCHANGED <<settleTimers, progressFill, counterText>>

\* nextSlide(), lines 190-194.
\* A variant that wraps from the last slide to the first.
NextSlideWrapAround ==
    IF totalSlides > 0
    THEN GoToSlide((currentSlide + 1) % totalSlides)
    ELSE UNCHANGED navVars

NextSlide ==
    IF currentSlide < totalSlides - 1
    THEN GoToSlide(currentSlide + 1)
    ELSE UNCHANGED navVars

\* previousSlide(), lines 196-200.
PreviousSlide ==
    IF currentSlide > 0
    THEN GoToSlide(currentSlide - 1)
    ELSE UNCHANGED navVars

\* The effect of the calls a handler makes (none or one).
Dispatch(route) ==
    IF route = <<>>
    THEN UNCHANGED navVars
    ELSE CASE route[1].fn = "nextSlide" -> NextSlide
           [] route[1].fn = "previousSlide" -> PreviousSlide
           [] route[1].fn = "goToSlide" -> GoToSlide(route[1].args[1])

\* The first requestAnimationFrame callback (line 221): it requests the
\* second.
\* A variant that runs the commit in the first callback.
OuterFrameCommits ==
    /\ constructed
    /\ frames # <<>>
    /\ Head(frames) = "outer"
    /\ LET saved == SaveProgress(currentSlide)
       IN /\ frames' = Tail(frames)
          /\ slides' = IF currentSlide \in DOMAIN slides
                       THEN [slides EXCEPT ![currentSlide] = (@ \ {"exit"}) \cup {"active"}]
                       ELSE slides
          /\ progressFill' = UpdateProgress(currentSlide, totalSlides)
          /\ counterText' = UpdateSlideCounter(currentSlide, totalSlides)
          /\ stored' = saved.stored
          /\ settleTimers' = IF saved.threw THEN settleTimers ELSE settleTimers + 1
          /\ Log("frame", <<>>, <<>>, saved.warn, FALSE)
    /\ committed' = TRUE
    /\ UNCHANGED <<currentSlide, isAnimating, prevDisabled, nextDisabled>>
    /\ UNCHANGED <<touchVars, resizeVars, constructed, totalSlides, chartLib, charts,
                   storageFails>>

OuterFrame ==
    /\ constructed
    /\ frames # <<>>
    /\ Head(frames) = "outer"
    /\ frames' = Append(Tail(frames), "inner")
    /\ Log("frame", <<>>, <<>>, {}, FALSE)
    /\ UNCHANGED <<currentSlide, slides, isAnimating, settleTimers, prevDisabled,
                   nextDisabled, progressFill, counterText>>
    /\ UNCHANGED <<touchVars, resizeVars, pageVars, stored, storageFails>>

\* The second requestAnimationFrame callback (lines 222-243): the commit.
\* A variant without the saveProgress() call of line 231.
CommitFrameNoSave ==
    /\ constructed
    /\ frames # <<>>
    /\ Head(frames) = "inner"
    /\ frames' = Tail(frames)
    /\ slides' = IF currentSlide \in DOMAIN slides
                 THEN [slides EXCEPT ![currentSlide] = (@ \ {"exit"}) \cup {"active"}]
                 ELSE slides
    /\ progressFill' = UpdateProgress(currentSlide, totalSlides)
    /\ counterText' = UpdateSlideCounter(currentSlide, totalSlides)
    /\ settleTimers' = settleTimers + 1
    /\ Log("frame", <<>>, <<>>, {}, FALSE)
    /\ committed' = TRUE
    /\ UNCHANGED <<currentSlide, isAnimating, prevDisabled, nextDisabled>>
    /\ UNCHANGED <<touchVars, resizeVars, constructed, totalSlides, chartLib, charts,
                   stored, storageFails>>

\* A variant that clears isAnimating in the commit, not in its timer.
CommitFrameReleasesLock ==
    /\ constructed
    /\ frames # <<>>
    /\ Head(frames) = "inner"
    /\ LET saved == SaveProgress(currentSlide)
       IN /\ frames' = Tail(frames)
          /\ slides' = IF currentSlide \in DOMAIN slides
                       THEN [slides EXCEPT ![currentSlide] = (@ \ {"exit"}) \cup {"active"}]
                       ELSE slides
          /\ progressFill' = UpdateProgress(currentSlide, totalSlides)
          /\ counterText' = UpdateSlideCounter(currentSlide, totalSlides)
          /\ stored' = saved.stored
          /\ settleTimers' = IF saved.threw THEN settleTimers ELSE settleTimers + 1
          /\ Log("frame", <<>>, <<>>, saved.warn, FALSE)
    /\ committed' = TRUE
    /\ isAnimating' = FALSE
    /\ UNCHANGED <<currentSlide, prevDisabled, nextDisabled>>
    /\ UNCHANGED <<touchVars, resizeVars, constructed, totalSlides, chartLib, charts,
                   storageFails>>

\* A variant without classList.remove('exit') of line 225.
CommitFrameKeepsExit ==
    /\ constructed
    /\ frames # <<>>
    /\ Head(frames) = "inner"
    /\ LET saved == SaveProgress(currentSlide)
       IN /\ frames' = Tail(frames)
          /\ slides' = IF currentSlide \in DOMAIN slides
                       THEN [slides EXCEPT ![currentSlide] = @ \cup {"active"}]
                       ELSE slides
          /\ progressFill' = UpdateProgress(currentSlide, totalSlides)
          /\ counterText' = UpdateSlideCounter(currentSlide, totalSlides)
          /\ stored' = saved.stored
          /\ settleTimers' = IF saved.threw THEN settleTimers ELSE settleTimers + 1
          /\ Log("frame", <<>>, <<>>, saved.warn, FALSE)
    /\ committed' = TRUE
    /\ UNCHANGED <<currentSlide, isAnimating, prevDisabled, nextDisabled>>
    /\ UNCHANGED <<touchVars, resizeVars, constructed, totalSlides, chartLib, charts,
                   storageFails>>

CommitFrame ==
    /\ constructed
    /\ frames # <<>>
    /\ Head(frames) = "inner"
    /\ LET saved == SaveProgress(currentSlide)
       IN /\ frames' = Tail(frames)
          /\ slides' = IF currentSlide \in DOMAIN slides
                       THEN [slides EXCEPT ![currentSlide] = (@ \ {"exit"}) \cup {"active"}]
                       ELSE slides
          /\ progressFill' = UpdateProgress(currentSlide, totalSlides)
          /\ counterText' = UpdateSlideCounter(currentSlide, totalSlides)
          /\ stored' = saved.stored
          /\ settleTimers' = IF saved.threw THEN settleTimers ELSE settleTimers + 1
          /\ Log("frame", <<>>, <<>>, saved.warn, FALSE)
    /\ committed' = TRUE
    /\ UNCHANGED <<currentSlide, isAnimating, prevDisabled, nextDisabled>>
    /\ UNCHANGED <<touchVars, resizeVars, constructed, totalSlides, chartLib, charts,
                   storageFails>>

\* The 600 ms timer of the commit (lines 234-242).
SettleTimer ==
    /\ constructed
    /\ settleTimers > 0
    /\ settleTimers' = settleTimers - 1
    /\ isAnimating' = FALSE
    /\ LET b == UpdateButtonStates(FALSE, currentSlide, totalSlides)
       IN prevDisabled' = b.prev /\ nextDisabled' = b.next
    /\ Log("settle", <<>>, <<>>, {}, FALSE)
    /\ UNCHANGED <<currentSlide, slides, frames, progressFill, counterText>>
    /\ UNCHANGED <<touchVars, resizeVars, pageVars, stored, storageFails>>

\* ---------------------------------------------------------------- inputs
\* handleKeyboard's switch (lines 76-96): the call each key makes.
\* A variant without the case of the space key.
KeyRouteSpaceUnhandled(key) ==
    CASE key \in {"ArrowLeft", "PageUp"} -> <<Call("previousSlide", <<>>)>>
      [] key \in {"ArrowRight", "PageDown"} -> <<Call("nextSlide", <<>>)>>
      [] key = "Home" -> <<Call("goToSlide", <<0>>)>>
      [] key = "End" -> <<Call("goToSlide", <<totalSlides - 1>>)>>
      [] OTHER -> <<>>

KeyRoute(key) ==
    CASE key \in {"ArrowLeft", "PageUp"} -> <<Call("previousSlide", <<>>)>>
      [] key \in {"ArrowRight", "PageDown", " "} -> <<Call("nextSlide", <<>>)>>
      [] key = "Home" -> <<Call("goToSlide", <<0>>)>>
      [] key = "End" -> <<Call("goToSlide", <<totalSlides - 1>>)>>
      [] OTHER -> <<>>

\* handleKeyboard(e), lines 73-97.  Every case calls e.preventDefault().
HandleKeyboard(key) ==
    /\ constructed
    /\ IF isAnimating
       THEN /\ UNCHANGED navVars
            /\ Log("keydown", <<>>, <<>>, {}, FALSE)
       ELSE LET route == KeyRoute(key)
            IN /\ Dispatch(route)
               /\ Log("keydown", route, <<>>, {}, route # <<>>)
    /\ UNCHANGED <<touchVars, resizeVars, pageVars, stored, storageFails>>

\* handleTouchStart(e), lines 99-103.
HandleTouchStart(x, y, now) ==
    /\ constructed
    /\ touchStartX' = x
    /\ touchStartY' = y
    /\ touchStartTime' = now
    /\ Log("touchstart", <<>>, <<>>, {}, FALSE)
    /\ UNCHANGED <<navVars, resizeVars, pageVars, stored, storageFails>>

\* The condition of handleTouchEnd, lines 117-119.
\* A variant with >= for the minimum distance.
IsSwipeInclusive(deltaX, deltaY, deltaTime) ==
    /\ Abs(deltaX) > Abs(deltaY)
    /\ Abs(deltaX) >= SwipeMinDistance
    /\ deltaTime < SwipeMaxTime

IsSwipe(deltaX, deltaY, deltaTime) ==
    /\ Abs(deltaX) > Abs(deltaY)
    /\ Abs(deltaX) > SwipeMinDistance
    /\ deltaTime < SwipeMaxTime

\* The call handleTouchEnd makes, lines 117-129.
SwipeRoute(deltaX, deltaY, deltaTime) ==
    IF IsSwipe(deltaX, deltaY, deltaTime)
    THEN IF deltaX > 0
         THEN <<Call("previousSlide", <<>>)>>
         ELSE <<Call("nextSlide", <<>>)>>
    ELSE <<>>

\* handleTouchEnd(e), lines 105-130.  The listener is passive (line 64), so
\* its e.preventDefault() (line 122) prevents nothing.
HandleTouchEnd(x, y, now) ==
    /\ constructed
    /\ IF isAnimating
       THEN /\ UNCHANGED navVars
            /\ Log("touchend", <<>>, <<>>, {}, FALSE)
       ELSE LET route == SwipeRoute(x - touchStartX, y - touchStartY,
                                    now - touchStartTime)
            IN /\ Dispatch(route)
               /\ Log("touchend", route, <<>>, {}, FALSE)
    /\ UNCHANGED <<touchVars, resizeVars, pageVars, stored, storageFails>>

\* The click listener of .nav-button.prev (line 53).
ClickPrev ==
    /\ constructed
    /\ Dispatch(<<Call("previousSlide", <<>>)>>)
    /\ Log("click", <<Call("previousSlide", <<>>)>>, <<>>, {}, FALSE)
    /\ UNCHANGED <<touchVars, resizeVars, pageVars, stored, storageFails>>

\* The click listener of .nav-button.next (line 56).
ClickNext ==
    /\ constructed
    /\ Dispatch(<<Call("nextSlide", <<>>)>>)
    /\ Log("click", <<Call("nextSlide", <<>>)>>, <<>>, {}, FALSE)
    /\ UNCHANGED <<touchVars, resizeVars, pageVars, stored, storageFails>>

\* A script calling window.presentation.goToSlide(index) (line 520 makes the
\* controller global).
ScriptGoToSlide(index) ==
    /\ constructed
    /\ Dispatch(<<Call("goToSlide", <<index>>)>>)
    /\ Log("script", <<Call("goToSlide", <<index>>)>>, <<>>, {}, FALSE)
    /\ UNCHANGED <<touchVars, resizeVars, pageVars, stored, storageFails>>

\* ------------------------------------------------------------- lifecycle
\* The visibilitychange listener with document.hidden (lines 549-556).
VisibilityHidden ==
    /\ constructed
    /\ LET saved == SaveProgress(currentSlide)
       IN /\ stored' = saved.stored
          /\ Log("hidden", <<Call("saveProgress", <<>>)>>, <<>>, saved.warn, FALSE)
    /\ UNCHANGED <<navVars, touchVars, resizeVars, pageVars, storageFails>>

\* The beforeunload listener (lines 559-563), the page staying.
BeforeUnload ==
    /\ constructed
    /\ LET saved == SaveProgress(currentSlide)
       IN /\ stored' = saved.stored
          /\ Log("beforeunload", <<Call("saveProgress", <<>>)>>, <<>>, saved.warn, FALSE)
    /\ UNCHANGED <<navVars, touchVars, resizeVars, pageVars, storageFails>>

\* The page is torn down and loaded again: pending callbacks are gone,
\* storage and the document stay.
Reload ==
    /\ constructed
    /\ constructed' = FALSE
    /\ currentSlide' = 0
    /\ slides' = [i \in 0..(totalSlides - 1) |-> {}]
    /\ isAnimating' = FALSE
    /\ frames' = <<>>
    /\ settleTimers' = 0
    /\ prevDisabled' = FALSE
    /\ nextDisabled' = FALSE
    /\ progressFill' = <<0, 1>>
    /\ counterText' = <<0, 0>>
    /\ touchStartX' = 0
    /\ touchStartY' = 0
    /\ touchStartTime' = 0
    /\ resizeTimeout' = "null"
    /\ debounceTimers' = 0
    /\ resizeEvents' = 0
    /\ passes' = 0
    /\ charts' = <<>>
    /\ committed' = FALSE
    /\ Log("none", <<>>, <<>>, {}, FALSE)
    /\ UNCHANGED <<totalSlides, chartLib, stored, storageFails>>

\* Storage starts or stops throwing (quota reached, space freed).
StorageChanges ==
    /\ storageFails' = ~storageFails
    /\ UNCHANGED <<navVars, touchVars, resizeVars, pageVars, logVars, stored>>

\* The DOMContentLoaded listener (lines 513-521): the constructor and
\* init().  loadProgress() (line 44) assigns this.currentSlide, and
\* showSlide(0) (line 47) assigns it again.
Construct ==
    /\ ~constructed
    /\ LET ic == InitCharts
           lp == LoadProgress(0, totalSlides)
           noLib == IF chartLib = "absent" THEN {"nochart"} ELSE {}
           b == UpdateButtonStates(FALSE, FirstSlide, totalSlides)
       IN /\ charts' = ic.charts
          /\ committed' = FALSE
          /\ Log("load", <<>>, <<>>,
                 noLib \cup ic.warn \cup (IF ic.threw THEN {} ELSE lp.warn), FALSE)
          /\ IF ic.threw \/ lp.threw
             THEN UNCHANGED <<navVars, constructed>>
             ELSE /\ constructed' = TRUE
                  /\ currentSlide' = FirstSlide
                  /\ slides' = ShowSlide(FirstSlide, totalSlides)
                  /\ progressFill' = UpdateProgress(FirstSlide, totalSlides)
                  /\ counterText' = UpdateSlideCounter(FirstSlide, totalSlides)
                  /\ prevDisabled' = b.prev
                  /\ nextDisabled' = b.next
                  /\ UNCHANGED <<isAnimating, frames, settleTimers>>
    /\ UNCHANGED <<touchVars, resizeVars, totalSlides, chartLib, stored, storageFails>>

\* ---------------------------------------------------------------- resize
\* handleResize(), lines 132-155, up to setTimeout.
\* A variant without the clearTimeout of lines 134-136.
HandleResizeNoClear ==
    /\ constructed
    /\ debounceTimers = 0 \/ resizeEvents < MaxBurst
    /\ debounceTimers' = debounceTimers + 1
    /\ resizeTimeout' = "pending"
    /\ resizeEvents' = IF debounceTimers = 0 THEN 1 ELSE resizeEvents + 1
    /\ passes' = 0
    /\ Log("resize", <<>>, <<>>, {}, FALSE)
    /\ UNCHANGED <<navVars, touchVars, pageVars, stored, storageFails>>

HandleResize ==
    /\ constructed
    /\ debounceTimers = 0 \/ resizeEvents < MaxBurst
    /\ LET left == IF resizeTimeout = "pending"
                   THEN debounceTimers - 1
                   ELSE debounceTimers
       IN debounceTimers' = left + 1
    /\ resizeTimeout' = "pending"
    /\ resizeEvents' = IF debounceTimers = 0 THEN 1 ELSE resizeEvents + 1
    /\ passes' = 0
    /\ Log("resize", <<>>, <<>>, {}, FALSE)
    /\ UNCHANGED <<navVars, touchVars, pageVars, stored, storageFails>>

\* The 250 ms timer of handleResize (lines 138-154): the relayout pass.
\* Timers fire oldest first; this.resizeTimeout names the newest.
ResizeTimer ==
    /\ constructed
    /\ debounceTimers > 0
    /\ debounceTimers' = debounceTimers - 1
    /\ resizeTimeout' = IF debounceTimers = 1 THEN "fired" ELSE resizeTimeout
    /\ passes' = passes + 1
    /\ Log("resizeTimer", <<>>, charts, {}, FALSE)
    /\ UNCHANGED resizeEvents
    /\ UNCHANGED <<navVars, touchVars, pageVars, stored, storageFails>>

\* The ResizeObserver callback (lines 171-181) for the container of one
\* canvas.
ChartContainerResized(canvas) ==
    /\ constructed
    /\ Log("observer", <<>>,
           IF \E i \in 1..Len(charts) : charts[i] = canvas THEN <<canvas>> ELSE <<>>,
           {}, FALSE)
    /\ UNCHANGED <<navVars, touchVars, resizeVars, pageVars, stored, storageFails>>

\* ------------------------------------------------------------------ Next
Next ==
    \/ Construct
    \/ Reload
    \/ StorageChanges
    \/ \E key \in Keys : HandleKeyboard(key)
    \/ \E t \in TouchStarts : HandleTouchStart(t[1], t[2], t[3])
    \/ \E t \in TouchEnds : HandleTouchEnd(t[1], t[2], t[3])
    \/ ClickPrev
    \/ ClickNext
    \/ \E index \in -1..MaxSlides : ScriptGoToSlide(index)
    \/ OuterFrame
    \/ CommitFrame
    \/ SettleTimer
    \/ VisibilityHidden
    \/ BeforeUnload

\* The navigation side, on a page whose chart library loads: no callback of
\* Next reads chartLib or charts.
NavInit == Init /\ chartLib = "ok"

Spec == NavInit /\ [][Next]_vars

\* The resize side of the controller, which shares no field with the
\* navigation side: handleResize and its timer write resizeTimeout and
\* read charts, and nothing else of the model.
ResizeNext ==
    \/ Construct
    \/ Reload
    \/ HandleResize
    \/ ResizeTimer
    \/ \E i \in 1..Len(PageCanvases) : ChartContainerResized(PageCanvases[i])

ResizeSpec == Init /\ [][ResizeNext]_vars

\* The browser runs every requested animation frame and every started
\* timer of a page that stays loaded.  The behaviours are those of a page
\* whose storage starts empty: no transition reads what storage held before
\* it.
FairInit == NavInit /\ stored = Null

FairSpec ==
    /\ FairInit
    /\ [][Next]_vars
    /\ WF_vars(OuterFrame)
    /\ WF_vars(CommitFrame)
    /\ WF_vars(SettleTimer)

\* ------------------------------------------------------------ properties
ActiveSlides == {i \in DOMAIN slides : "active" \in slides[i]}
ExitSlides == {i \in DOMAIN slides : "exit" \in slides[i]}

Idle == constructed /\ ~isAnimating
Transitioning == constructed /\ isAnimating

\* The boundary rule of the two navigation controls.
ButtonsAtBoundary ==
    /\ prevDisabled <=> (currentSlide = 0)
    /\ nextDisabled <=> (currentSlide = totalSlides - 1)

\* The controller has settled on slide t.
SettledOn(t) ==
    /\ Idle
    /\ currentSlide = t
    /\ Cardinality(ActiveSlides) = 1
    /\ ButtonsAtBoundary

\* C1: a transition accepted for target t (the controller is Transitioning
\* with currentSlide = t, which is what goToSlide(t) from Idle leaves, also
\* for t = currentSlide) leads, the frames and the timer firing, to Idle
\* with currentSlide = t, exactly one slide active and both buttons at the
\* boundary rule, unless the page is torn down first.
C1_GoToSettles ==
    \A t \in 0..(MaxSlides - 1) :
        (Transitioning /\ t < totalSlides /\ currentSlide = t)
            ~> (~constructed \/ SettledOn(t))

\* C1 witness: the settle timer has just returned the controller to Idle on
\* the last of three slides, reached from another slide.
C1_Witness ==
    /\ lastEvent = "settle"
    /\ totalSlides = 3
    /\ SettledOn(2)
    /\ ExitSlides # {}

\* A navigation request, by any route: a step of one of the callbacks that
\* route to nextSlide, previousSlide or goToSlide.
NavigationRequest ==
    /\ lastEvent' \in {"keydown", "touchend", "click", "script"}
    /\ \/ \E key \in Keys : HandleKeyboard(key)
       \/ \E t \in TouchEnds : HandleTouchEnd(t[1], t[2], t[3])
       \/ ClickPrev
       \/ ClickNext
       \/ \E index \in -1..MaxSlides : ScriptGoToSlide(index)

\* C2: a navigation request made while isAnimating is true changes neither
\* currentSlide, nor a slide's marking, nor the persisted value, and queues
\* no callback; and no step taken while isAnimating is true changes
\* currentSlide on a page that stays loaded, so the index the controller
\* returns to Idle with is the accepted target.
C2_RequestsDroppedWhileAnimating ==
    [][ /\ (isAnimating /\ NavigationRequest)
            => UNCHANGED <<currentSlide, slides, stored, isAnimating, frames,
                           settleTimers>>
        /\ (isAnimating /\ constructed') => currentSlide' = currentSlide
      ]_vars

\* C2 witness: a click on "next" arrived between the two animation frames of
\* a transition to slide 1, and slide 1 is still the index.
C2_Witness ==
    /\ Transitioning
    /\ lastEvent = "click"
    /\ calls = <<Call("nextSlide", <<>>)>>
    /\ frames = <<"inner">>
    /\ totalSlides = 3
    /\ currentSlide = 1

\* C3: a controller constructed over storage that holds the persisted index
\* k of the same page (the read not throwing) starts with currentSlide = k
\* and slide k active.
C3_RoundTrip ==
    \A k \in 0..(MaxSlides - 1) :
        ( /\ lastEvent = "load"
          /\ constructed
          /\ "load" \notin warned
          /\ k < totalSlides
          /\ stored = ToString(k) )
        => (currentSlide = k /\ ActiveSlides = {k})

\* The stored value is no usable position: missing, not a number, or out of
\* [0, totalSlides-1]; or reading storage throws.
NoUsablePosition ==
    \/ storageFails
    \/ stored = Null
    \/ ParseInt(stored).nan
    \/ ParseInt(stored).val < 0
    \/ ParseInt(stored).val >= totalSlides

\* C4: construction over storage with no usable position completes and
\* leaves currentSlide = 0.
C4_FallbackToZero ==
    [][ (Construct /\ NoUsablePosition) => (constructed' /\ currentSlide' = 0) ]_vars

\* C4 witness: a controller just constructed over the stored text "x", and
\* one whose read of storage threw.
C4_Witness ==
    /\ lastEvent = "load"
    /\ constructed
    /\ currentSlide = 0
    /\ "load" \in warned \/ stored = <<"x">>
    /\ totalSlides = 3

\* C5: nextSlide() at the last index and previousSlide() at index 0 change
\* nothing: not the index, the lock, a slide's marking, a button, the
\* persisted value, nor the pending frames and timers.
C5_BoundaryNoOp ==
    [][ /\ (ClickNext /\ currentSlide = totalSlides - 1)
            => UNCHANGED <<navVars, stored>>
        /\ (ClickPrev /\ currentSlide = 0)
            => UNCHANGED <<navVars, stored>>
      ]_vars

\* C5 witness: nextSlide() was called in Idle on the last of three slides.
C5_Witness ==
    /\ Idle
    /\ lastEvent = "click"
    /\ calls = <<Call("nextSlide", <<>>)>>
    /\ totalSlides = 3
    /\ currentSlide = 2
    /\ frames = <<>>
    /\ settleTimers = 0

\* C6: goToSlide(index) with index < 0 or index >= totalSlides, in any
\* state, changes neither the index, the lock, a slide's marking, a button,
\* the persisted value, nor the pending frames and timers.
C6_OutOfRangeRejected ==
    [][ \A index \in -1..MaxSlides :
            (ScriptGoToSlide(index) /\ (index < 0 \/ index >= totalSlides))
                => UNCHANGED <<navVars, stored>>
      ]_vars

\* C6 witness: goToSlide(-1) and goToSlide(totalSlides) were called in Idle,
\* and the controller is still Idle.
C6_Witness ==
    /\ Idle
    /\ lastEvent = "script"
    /\ totalSlides = 3
    /\ \/ calls = <<Call("goToSlide", <<-1>>)>>
       \/ calls = <<Call("goToSlide", <<3>>)>>
    /\ frames = <<>>
    /\ settleTimers = 0

\* The commit of a transition has just run and its storage write threw.
CommitWriteFailed ==
    /\ Transitioning
    /\ lastEvent = "frame"
    /\ "save" \in warned

\* C7: when the storage write of a commit throws, the commit still marks
\* the new slide active and starts the settle timer, leaving the index and
\* the persisted value as they were; and the controller then returns to
\* Idle on the target, unless the page is torn down first.
C7_CommitSurvivesStorageFailure ==
    /\ [][ (CommitFrame /\ storageFails)
              => /\ "active" \in slides'[currentSlide]
                 /\ settleTimers' = settleTimers + 1
                 /\ currentSlide' = currentSlide
                 /\ stored' = stored
         ]_vars
    /\ \A t \in 0..(MaxSlides - 1) :
          (CommitWriteFailed /\ currentSlide = t) ~> (~constructed \/ SettledOn(t))

\* C7 witness: a commit on slide 1 whose write threw: slide 1 is active, the
\* settle timer is pending, storage does not hold "1".
C7_Witness ==
    /\ CommitWriteFailed
    /\ totalSlides = 3
    /\ currentSlide = 1
    /\ ActiveSlides = {1}
    /\ settleTimers = 1
    /\ stored # ToString(1)

\* The claim's recognition rule for a gesture of displacement (dx, dy) and
\* duration dt: the calls it makes.
SwipeCalls(dx, dy, dt) ==
    IF Abs(dx) > Abs(dy) /\ Abs(dx) > 50 /\ dt < 500
    THEN IF dx > 0
         THEN <<Call("previousSlide", <<>>)>>
         ELSE <<Call("nextSlide", <<>>)>>
    ELSE <<>>

\* C8: in Idle, a touchend makes exactly the calls of the recognition rule:
\* one previousSlide() or one nextSlide() for a swipe, none otherwise.
C8_SwipeRecognition ==
    [][ \A t \in TouchEnds :
            (~isAnimating /\ HandleTouchEnd(t[1], t[2], t[3]))
                => calls' = SwipeCalls(t[1] - touchStartX, t[2] - touchStartY,
                                       t[3] - touchStartTime)
      ]_vars

\* C8 witness: after a touch started at (100, 100), a touchend in Idle on
\* slide 1 called nextSlide() once, and the transition to slide 2 began.
C8_Witness ==
    /\ lastEvent = "touchend"
    /\ touchStartX = 100
    /\ calls = <<Call("nextSlide", <<>>)>>
    /\ totalSlides = 3
    /\ Transitioning
    /\ currentSlide = 2
    /\ frames = <<"outer">>

\* C9: at most one debounce timer is pending; the relayout pass a burst of
\* resize events ends with is the only one (no timer is left when it runs)
\* and calls resize() once on every chart of the registry.
C9_ResizeDebounce ==
    /\ debounceTimers <= 1
    /\ passes <= 1
    /\ lastEvent = "resizeTimer"
          => /\ resizeEvents >= 1
             /\ debounceTimers = 0
             /\ passes = 1
             /\ resized = charts
             /\ \A i, j \in 1..Len(charts) : charts[i] = charts[j] => i = j

\* C9 witness: the pass after a burst of MaxBurst resize events, over two
\* charts.
C9_Witness ==
    /\ lastEvent = "resizeTimer"
    /\ resizeEvents = MaxBurst
    /\ passes = 1
    /\ debounceTimers = 0
    /\ Len(resized) = 2

\* The claim's routing table: the call a key makes.
KeyCalls(key) ==
    CASE key = "ArrowLeft" -> <<Call("previousSlide", <<>>)>>
      [] key = "PageUp" -> <<Call("previousSlide", <<>>)>>
      [] key = "ArrowRight" -> <<Call("nextSlide", <<>>)>>
      [] key = "PageDown" -> <<Call("nextSlide", <<>>)>>
      [] key = " " -> <<Call("nextSlide", <<>>)>>
      [] key = "Home" -> <<Call("goToSlide", <<0>>)>>
      [] key = "End" -> <<Call("goToSlide", <<totalSlides - 1>>)>>
      [] OTHER -> <<>>

\* C10: in Idle a keydown makes the call of the routing table, and the
\* effect of that call; while Transitioning a keydown makes no call and
\* changes nothing of the navigation state or the persisted value.
C10_KeyboardRouting ==
    [][ \A key \in Keys :
            HandleKeyboard(key)
                => IF isAnimating
                   THEN calls' = <<>> /\ UNCHANGED <<navVars, stored>>
                   ELSE calls' = KeyCalls(key)
      ]_vars

\* C10 witness: End was pressed in Idle on the first of three slides: it
\* called goToSlide(2) and the transition to slide 2 began.
C10_Witness ==
    /\ lastEvent = "keydown"
    /\ calls = <<Call("goToSlide", <<2>>)>>
    /\ totalSlides = 3
    /\ Transitioning
    /\ currentSlide = 2
    /\ frames = <<"outer">>
    /\ prevented

\* ----------------------------------------------------------- C11 .. C20
\* The navigation side on every page the chart code can meet: the library
\* present, absent, or throwing from a constructor.  Storage starts empty.
ChartInit == Init /\ stored = Null

ChartSpec == ChartInit /\ [][Next]_vars

\* C11: when the chart library is absent or a chart constructor throws,
\* construction still completes (the controller exists, slide 0 is shown,
\* the lock is free, the buttons follow the boundary rule, the failure is
\* only logged, and the registry holds fewer charts than the page has
\* canvases); afterwards goToSlide of a valid index and the Next button
\* are accepted as on a page whose charts were built.
C11_ChartFailureNotFatal ==
    [][ /\ (lastEvent' = "load" /\ Construct /\ chartLib # "ok") =>
              /\ constructed'
              /\ currentSlide' = FirstSlide
              /\ slides' = ShowSlide(FirstSlide, totalSlides)
              /\ ~isAnimating'
              /\ ButtonsAtBoundary'
              /\ Len(charts') < Len(PageCanvases)
              /\ (chartLib = "absent") <=> ("nochart" \in warned')
              /\ (chartLib \in {"throws", "throwsLater"}) <=> ("chart" \in warned')
        /\ \A index \in 0..(MaxSlides - 1) :
              (lastEvent' = "script" /\ ~isAnimating /\ index < totalSlides
                   /\ ScriptGoToSlide(index)) =>
                  (isAnimating' /\ currentSlide' = index /\ frames' = <<"outer">>)
        /\ (lastEvent' = "click" /\ ~isAnimating
                /\ currentSlide < totalSlides - 1 /\ ClickNext) =>
              (isAnimating' /\ currentSlide' = currentSlide + 1)
      ]_vars

\* A transition to the last slide has settled on a page whose first chart
\* constructor threw.
C11_Witness ==
    /\ chartLib = "throws"
    /\ charts = <<>>
    /\ constructed
    /\ lastEvent = "settle"
    /\ totalSlides = MaxSlides
    /\ SettledOn(MaxSlides - 1)

\* Every callback of the page together: navigation, input, lifecycle, the
\* frame and timer callbacks, and the resize side.  The page's chart
\* library loads and its storage is empty and accepts writes.
WholeInit == FairInit /\ ~storageFails

WholeNext ==
    \/ Construct
    \/ Reload
    \/ \E key \in Keys : HandleKeyboard(key)
    \/ \E t \in TouchStarts : HandleTouchStart(t[1], t[2], t[3])
    \/ \E t \in TouchEnds : HandleTouchEnd(t[1], t[2], t[3])
    \/ ClickPrev
    \/ ClickNext
    \/ \E index \in -1..MaxSlides : ScriptGoToSlide(index)
    \/ OuterFrame
    \/ CommitFrame
    \/ SettleTimer
    \/ VisibilityHidden
    \/ BeforeUnload
    \/ HandleResize
    \/ ResizeTimer
    \/ \E i \in 1..Len(PageCanvases) : ChartContainerResized(PageCanvases[i])

WholeSpec == WholeInit /\ [][WholeNext]_vars

\* C12: once the controller is constructed on a page with at least one
\* slide, currentSlide is an index of slides, 0 <= currentSlide <=
\* totalSlides - 1, whatever navigation, input, resize and lifecycle
\* callbacks have run.
C12_CurrentSlideInRange ==
    (constructed /\ totalSlides >= 1) =>
        (currentSlide >= 0 /\ currentSlide <= totalSlides - 1)

\* A transition to the last slide is under way while a resize debounce
\* timer is pending.
C12_Witness ==
    /\ constructed
    /\ totalSlides = MaxSlides
    /\ currentSlide = totalSlides - 1
    /\ isAnimating
    /\ resizeTimeout = "pending"

\* The fraction f has the value num / den.
FractionIs(f, num, den) ==
    /\ f[2] # 0
    /\ den # 0
    /\ f[1] * den = num * f[2]

C14_ExitClearedAtCommit ==
    (constructed /\ frames = <<>> /\ totalSlides >= 1) =>
        (currentSlide \in ActiveSlides /\ ExitSlides = {})

\* C15: in every reachable state no slide carries both 'active' and 'exit'
\* and at most one slide carries 'active'; in every Idle state of a page
\* with at least one slide exactly one slide is active, and it is
\* slides[currentSlide].
C15_ActiveExitExclusive ==
    /\ \A i \in DOMAIN slides : ~({"active", "exit"} \subseteq slides[i])
    /\ Cardinality(ActiveSlides) <= 1
    /\ (Idle /\ totalSlides >= 1) => ActiveSlides = {currentSlide}

\* Idle on the middle slide after two transitions: it alone is active, and
\* the slides left before carry 'exit' only.
C15_Witness ==
    /\ Idle
    /\ lastEvent = "settle"
    /\ totalSlides = 3
    /\ currentSlide = 1
    /\ slides = [i \in 0..2 |-> IF i = 1 THEN {"active"} ELSE {"exit"}]

\* C16: in every state after construction, while isAnimating both
\* navigation buttons are disabled; while it is false the Previous button
\* is disabled exactly when currentSlide = 0 and the Next button exactly
\* when currentSlide = totalSlides - 1.
C16_ButtonStates ==
    constructed =>
        /\ isAnimating => (prevDisabled /\ nextDisabled)
        /\ ~isAnimating => ButtonsAtBoundary

\* A transition to the middle slide of three is under way: both buttons
\* are disabled although the boundary rule would enable both.
C16_Witness ==
    /\ Transitioning
    /\ totalSlides = 3
    /\ currentSlide = 1
    /\ prevDisabled
    /\ nextDisabled
    /\ lastEvent = "click"

\* The steps of a transition, told apart by what they do to the lock and
\* to the pending frames, on a page that stays loaded.
AcceptStep == constructed /\ constructed' /\ ~isAnimating /\ isAnimating'
CommitStep ==
    constructed /\ constructed' /\ isAnimating /\ frames = <<"inner">> /\ frames' = <<>>
ReleaseStep == constructed /\ constructed' /\ isAnimating /\ ~isAnimating'

\* C17: a transition runs accept, commit, settle in this order.  Accept
\* sets the lock, marks the old slide 'exit', sets currentSlide and
\* requests the first frame, writing neither the progress display nor
\* storage.  Until the second frame callback nothing of the commit
\* happens: the slide marks, the fill and the counter stay, the lock stays,
\* no timer is started, and storage is written only by a lifecycle save.
\* The commit marks the new slide 'active', updates fill and counter,
\* persists the index and starts the one settle timer, the lock still
\* held.  The lock is released only by that timer, after the commit, and
\* the buttons then follow the boundary rule.  currentSlide does not
\* change from accept to settle.
C17_PhaseOrder ==
    [][ /\ AcceptStep =>
              /\ frames' = <<"outer">>
              /\ settleTimers' = 0
              /\ prevDisabled' /\ nextDisabled'
              /\ "exit" \in slides'[currentSlide]
              /\ ActiveSlides' = {}
              /\ <<progressFill, counterText, stored>>' =
                     <<progressFill, counterText, stored>>
        /\ (constructed /\ constructed' /\ isAnimating) =>
              currentSlide' = currentSlide
        /\ (constructed /\ constructed' /\ isAnimating /\ frames # <<>>
                /\ ~CommitStep) =>
              /\ <<slides, progressFill, counterText, isAnimating, settleTimers>>' =
                     <<slides, progressFill, counterText, isAnimating, settleTimers>>
              /\ frames' \in {frames, <<"inner">>}
              /\ stored' # stored => lastEvent' \in {"hidden", "beforeunload"}
        /\ CommitStep =>
              /\ "active" \in slides'[currentSlide]
              /\ progressFill' = UpdateProgress(currentSlide, totalSlides)
              /\ counterText' = UpdateSlideCounter(currentSlide, totalSlides)
              /\ stored' = SaveProgress(currentSlide).stored
              /\ settleTimers' = 1
              /\ isAnimating'
              /\ prevDisabled' /\ nextDisabled'
        /\ ReleaseStep =>
              /\ frames = <<>>
              /\ settleTimers = 1
              /\ settleTimers' = 0
              /\ lastEvent' = "settle"
              /\ ButtonsAtBoundary'
      ]_vars

\* A transition to the last of three slides has gone through its three
\* phases: the index is persisted and the lock released.
C17_Witness ==
    /\ Idle
    /\ lastEvent = "settle"
    /\ totalSlides = 3
    /\ currentSlide = 2
    /\ stored = <<"2">>
    /\ progressFill = <<300, 3>>
    /\ "active" \in slides[2]

\* The keys handleKeyboard has a case for.
NavigationKeys == Keys \ {"a"}

\* C18: every keydown of a navigation key calls preventDefault on the
\* event, whatever the controller's state: Idle or Transitioning, and also
\* when the press changes nothing.
C18_NavigationKeysPrevented ==
    [][ \A key \in NavigationKeys : HandleKeyboard(key) => prevented' ]_vars

\* showSlide(index), lines 247-260, called on the controller the page
\* exposes as window.presentation (line 520).
ScriptShowSlide(index) ==
    /\ constructed
    /\ currentSlide' = index
    /\ slides' = ShowSlide(index, totalSlides)
    /\ progressFill' = UpdateProgress(index, totalSlides)
    /\ counterText' = UpdateSlideCounter(index, totalSlides)
    /\ LET b == UpdateButtonStates(FALSE, index, totalSlides)
       IN prevDisabled' = b.prev /\ nextDisabled' = b.next
    /\ Log("show", <<>>, <<>>, {}, FALSE)
    /\ UNCHANGED <<isAnimating, frames, settleTimers>>
    /\ UNCHANGED <<touchVars, resizeVars, pageVars, stored, storageFails>>

\* The navigation side with showSlide callable at any moment, not only
\* from init().
ShowNext ==
    \/ Next
    \/ \E index \in 0..(MaxSlides - 1) : ScriptShowSlide(index)

ShowSpec == FairInit /\ [][ShowNext]_vars

\* What showSlide(index) leaves, for an index of slides.
ShownImmediately(index) ==
    /\ currentSlide' = index
    /\ ActiveSlides' = {index}
    /\ ExitSlides' = {}
    /\ counterText' = <<index + 1, totalSlides>>
    /\ FractionIs(progressFill', (index + 1) * 100, totalSlides)
    /\ prevDisabled' <=> (index = 0)
    /\ nextDisabled' <=> (index = totalSlides - 1)
    /\ <<isAnimating, frames, settleTimers, stored>>' =
           <<isAnimating, frames, settleTimers, stored>>

\* C19: showSlide(index), for an index of slides, sets currentSlide to
\* index in the same step, leaves exactly slides[index] 'active' and no
\* slide 'exit', sets counter, fill and buttons for index, and leaves the
\* lock, the pending frames and timers and the persisted value as they
\* were; so does the showSlide(0) of construction.
C19_ShowSlideImmediate ==
    [][ /\ \A index \in 0..(MaxSlides - 1) :
              (ScriptShowSlide(index) /\ index < totalSlides) =>
                  ShownImmediately(index)
        /\ (Construct /\ totalSlides >= 1) => ShownImmediately(FirstSlide)
      ]_vars

\* showSlide(1) ran between the two frames of a transition to slide 2: the
\* 'exit' mark of the slide left is gone, slide 1 is active, the lock is
\* still held and the second frame still pending.
C19_Witness ==
    /\ lastEvent = "show"
    /\ totalSlides = 3
    /\ currentSlide = 1
    /\ slides = [i \in 0..2 |-> IF i = 1 THEN {"active"} ELSE {}]
    /\ isAnimating
    /\ frames = <<"inner">>
    /\ ~prevDisabled
    /\ ~nextDisabled

\* The callbacks of transitions that are still to run: requested frames
\* and started settle timers.
OutstandingCallbacks == Len(frames) + settleTimers

\* C20: isAnimating is true exactly when one transition has a callback
\* outstanding, a requested frame or a started settle timer, and two
\* callbacks are never outstanding together, whatever button, keyboard,
\* touch, script, resize and lifecycle events are interleaved with the
\* frame and timer callbacks.
C20_LockExact ==
    /\ OutstandingCallbacks <= 1
    /\ isAnimating <=> (OutstandingCallbacks = 1)

\* A resize event arrived while the settle timer of a transition was
\* pending, after requests made during the transition: the lock is held
\* and the timer is the one callback outstanding.
C20_Witness ==
    /\ constructed
    /\ lastEvent = "resize"
    /\ resizeEvents = MaxBurst
    /\ isAnimating
    /\ frames = <<>>
    /\ settleTimers = 1
    /\ currentSlide = 1

\* ----------------------------------------------------------- C21 .. C22
\* C21: the page-hide and the beforeunload listeners, in whatever state of
\* the controller they fire, write currentSlide as a decimal string to
\* storage and change nothing else of the controller or the page; when
\* storage throws, the stored value stays and the failure is only logged.
\* currentSlide being the target from the accept step on, a save between
\* accept and commit writes the target index.
C21_LifecycleSaves ==
    [][ (VisibilityHidden \/ BeforeUnload) =>
            /\ stored' = IF storageFails THEN stored ELSE ToString(currentSlide)
            /\ storageFails <=> ("save" \in warned')
            /\ calls' = <<Call("saveProgress", <<>>)>>
            /\ UNCHANGED <<navVars, touchVars, resizeVars, pageVars, storageFails>>
      ]_vars

\* The page was hidden after the first frame of a transition from slide 0
\* to slide 2: storage holds "2" while the counter still reads 1 of 3 and
\* commit and settle are still to come.
C21_Witness ==
    /\ lastEvent = "hidden"
    /\ totalSlides = 3
    /\ currentSlide = 2
    /\ isAnimating
    /\ frames = <<"inner">>
    /\ counterText = <<1, 3>>
    /\ ActiveSlides = {}
    /\ stored = <<"2">>

\* The decimal strings of the indices of slides.
SlideIndexStrings == {ToString(i) : i \in 0..(totalSlides - 1)}

\* The stored value equals currentSlide in every Idle state of a controller
\* that has committed a transition.
TracksIndex == (Idle /\ committed) => stored = ToString(currentSlide)

\* C22: with storage accepting every write, in every Idle state reached
\* after at least one committed transition the stored value is
\* currentSlide, and every value the controller writes (storage holding
\* nothing before the first write) is an integer of 0..totalSlides - 1.
C22_PersistedTracksIndex ==
    /\ TracksIndex
    /\ stored # Null => stored \in SlideIndexStrings

\* C22 as it holds: the same on every page with at least one slide.  On a
\* page without slides the lifecycle listeners still write "0".
C22_PersistedTracksIndexOfSlides ==
    /\ TracksIndex
    /\ totalSlides >= 1 => (stored # Null => stored \in SlideIndexStrings)
    /\ (totalSlides = 0 /\ stored # Null) => stored = ToString(0)

\* Idle on the middle slide after transitions to the last slide and back:
\* storage holds "1".
C22_Witness ==
    /\ Idle
    /\ committed
    /\ lastEvent = "settle"
    /\ totalSlides = 3
    /\ currentSlide = 1
    /\ "exit" \in slides[2]
    /\ stored = <<"1">>

====
